---- MODULE Spec2Model ----
(***************************************************************************)
(* PAID: the turn-buffering bridge (AnthropicDeepgramAgent), the           *)
(* design-state refresh (DesignAgent.process run on a background thread)   *)
(* and the persistence layer (paid.database.operations) for one session.   *)
(*                                                                         *)
(* Text is a sequence of one-character (or one-token) strings, so that     *)
(* Python's `a + " " + b` is `a \o SPACE \o b`.  Python's None is NoneVal  *)
(* where the value is a design state and NoneText where it is a text.      *)
(***************************************************************************)
EXTENDS Integers, Sequences, FiniteSets, TLC

\* ------------------------------------------------------------------ bounds
\* fragments delivered to the bridge during the session
MaxFragments == 4
\* background refresh threads started during the session
MaxRefreshes == 2
\* writes that get the same clock reading as the write before them
MaxTies == 1
\* rows of the design_state table when the store is called directly
MaxSnapshots == 2
\* rows of the conversation table when the store is called directly
MaxMessages == 1

\* the longest response given to the parser alone, in tokens
MaxTokens == 4

\* the longest list of user flows given to the diagram manager
MaxFlows == 2

\* ------------------------------------------------------------------ values
NoneVal == "None"
NoneText == <<"<None>">>
SPACE == <<" ">>

\* the fragments the speech service delivers: the k-th fragment of the session
\* is the k-th letter, so that every fragment is told from every other
Letters == <<"a", "b", "c", "d", "e", "f">>
Fragment(k) == <<Letters[k]>>

\* DEFAULT_DESIGN_STATE: the empty template
DEFAULT_DESIGN_STATE == "DEFAULT"

\* design-state documents: the template, the empty object {} and two
\* filled-in documents
StateValues == {DEFAULT_DESIGN_STATE, "S0", "S1", "S2"}

\* further documents, of the shapes the export tells apart (see Dict)
ExportStates == {"E1", "E2", "E3", "E4", "E5", "E6", "E7", "E8"}

\* Python truthiness of a design state: None and the empty dict are falsy
Truthy(v) == v \notin {NoneVal, "S0"}

\* json.dumps / json.loads on the documents above.  "NULL" is the JSON text
\* null, which json.loads turns into None; every other text is not JSON.
JsonDumps(v) ==
    CASE v = DEFAULT_DESIGN_STATE -> "JD"
      [] v = "S0" -> "J0"
      [] v = "S1" -> "J1"
      [] v = "S2" -> "J2"
      [] v = "E1" -> "K1"
      [] v = "E2" -> "K2"
      [] v = "E3" -> "K3"
      [] v = "E4" -> "K4"
      [] v = "E5" -> "K5"
      [] v = "E6" -> "K6"
      [] v = "E7" -> "K7"
      [] v = "E8" -> "K8"
      [] OTHER -> "NULL"

JsonTexts ==
    {"JD", "J0", "J1", "J2", "NULL", "K1", "K2", "K3", "K4", "K5", "K6", "K7", "K8"}

\* the value json.loads returns for a text that is one JSON document
JsonValue(t) ==
    CASE t = "JD" -> DEFAULT_DESIGN_STATE
      [] t = "J0" -> "S0"
      [] t = "J1" -> "S1"
      [] t = "J2" -> "S2"
      [] t = "K1" -> "E1"
      [] t = "K2" -> "E2"
      [] t = "K3" -> "E3"
      [] t = "K4" -> "E4"
      [] t = "K5" -> "E5"
      [] t = "K6" -> "E6"
      [] t = "K7" -> "E7"
      [] t = "K8" -> "E8"
      [] OTHER -> NoneVal

\* ------------------------------------------------------------------ state
VARIABLES
    current_user_transcript,  \* bridge: buffered user text
    current_agent_response,   \* bridge: buffered agent text
    last_speaker,             \* bridge: "None", "user" or "agent"
    connection,               \* DeepgramConversationAgent.connection: "None" or "ws"
    is_listening,             \* DeepgramConversationAgent.is_listening
    started,                  \* start() has been called on this bridge object
    handshake,                \* history: what connection.start(options) did
    start_result,             \* what start() returned to its caller
    remote,                   \* what the remote session was last given as instructions
    conversation,             \* Conversation table of the session, in id order
    design_states,            \* DesignState table of the session, in id order
    clock,                    \* the reading datetime.now gave to the last write
    threads,                  \* background refresh threads, in start order
    delivered,                \* history: the fragments handed to the bridge, in order
    voice_active,             \* st.session_state.voice_active
    ui_status,                \* what start_live_voice_session returned
    sessions,                 \* Session table: the ids that exist
    last_call,                \* the last call made on the store from outside the bridge
    files,                    \* file system: the files, as [dir, name, content]
    dirs,                     \* file system: the directories that exist
    export_result,            \* what the last export returned
    flow_diagrams,            \* UserFlowDiagramManager.flow_diagrams
    current_flows_hash,       \* UserFlowDiagramManager.current_flows_hash
    last_generate,            \* history: the last generate_flow_diagrams call
    extract_call              \* history: the last _extract_json call

vars == <<current_user_transcript, current_agent_response, last_speaker, connection,
          is_listening, started, remote, conversation, design_states, clock,
          threads, delivered, handshake, start_result, voice_active, ui_status,
          sessions, last_call, files, dirs, export_result, flow_diagrams,
          current_flows_hash, last_generate, extract_call>>

bridge_vars == <<current_user_transcript, current_agent_response, last_speaker>>
link_vars == <<connection, is_listening, started, remote, handshake, start_result>>
store_vars == <<conversation, design_states, clock>>
ui_vars == <<voice_active, ui_status>>
api_vars == <<sessions, last_call>>
export_vars == <<files, dirs, export_result>>
diagram_vars == <<flow_diagrams, current_flows_hash, last_generate>>
side_vars == <<export_vars, diagram_vars, extract_call>>
env_vars == <<ui_vars, api_vars, side_vars>>

\* ------------------------------------------------------------------ store
\* the readings the rows of both tables carry
Stamps ==
    {conversation[i].timestamp : i \in DOMAIN conversation}
        \cup {design_states[i].created_at : i \in DOMAIN design_states}

\* writes so far that shared a clock reading with an earlier write
Ties == Len(conversation) + Len(design_states) - Cardinality(Stamps)

\* datetime.datetime.now as the default of a timestamp column: the clock does
\* not go back; dt = 0 is a write within the clock's resolution of the last
ClockSteps == {dt \in {0, 1} : dt = 0 => Ties < MaxTies}

\* the session the bridge was constructed for, and a second id
session_id == "s1"
SessionIds == {"s1", "s2"}

\* get_session(session_id): whether a row with that id exists
GetSession(sess, id) == id \in sess

\* the rows of a table that belong to one session (the where clause of the
\* queries)
SessionRows(table, id) ==
    LET Mine(row) == row.session = id IN SelectSeq(table, Mine)

\* add_conversation_message(session_id, speaker, message): ValueError when
\* the session is not found, Conversation.create otherwise
AddConversationMessage(sess, conv, id, speaker, message, now) ==
    IF ~GetSession(sess, id)
    THEN [raised |-> TRUE, rows |-> conv]
    ELSE [raised |-> FALSE,
          rows |-> Append(conv, [session |-> id, speaker |-> speaker,
                                 message |-> message, timestamp |-> now])]

\* DesignState(session); state = value; save(): instructions stay NULL
NewDesignStateRow(id, state, now) ==
    [session |-> id, state_json |-> JsonDumps(state), instructions |-> NoneText,
     created_at |-> now]

\* an update_design_state that keeps one row per session: the session's last
\* row is overwritten when there is one
UpdateDesignState_Upserts(sess, states, id, state, now) ==
    IF ~GetSession(sess, id)
    THEN [raised |-> TRUE, states |-> states]
    ELSE LET mine == {i \in DOMAIN states : states[i].session = id}
         IN  [raised |-> FALSE,
              states |->
                 IF mine = {}
                 THEN Append(states, NewDesignStateRow(id, state, now))
                 ELSE [states EXCEPT
                          ![CHOOSE i \in mine : \A j \in mine : j <= i] =
                              NewDesignStateRow(id, state, now)]]

\* an update_design_state that writes the row without looking the session up
UpdateDesignState_SkipsLookup(sess, states, id, state, now) ==
    [raised |-> FALSE, states |-> Append(states, NewDesignStateRow(id, state, now))]

\* update_design_state(session_id, state): ValueError when the session is
\* not found, one new row otherwise
UpdateDesignState(sess, states, id, state, now) ==
    IF ~GetSession(sess, id)
    THEN [raised |-> TRUE, states |-> states]
    ELSE [raised |-> FALSE, states |-> Append(states, NewDesignStateRow(id, state, now))]

\* get_conversation_history(session_id): the lists it may return.  The rows
\* of the session come ordered by timestamp ascending and the order among
\* rows of equal timestamp is not defined; an unknown session gives [].
GetConversationHistory(sess, conv, id) ==
    IF ~GetSession(sess, id) THEN {<<>>}
    ELSE LET rows == SessionRows(conv, id)
             n == Len(rows)
             Orders == {p \in [1..n -> 1..n] :
                          /\ \A i, j \in 1..n : i # j => p[i] # p[j]
                          /\ \A i, j \in 1..n :
                                i < j => rows[p[i]].timestamp <= rows[p[j]].timestamp}
         IN  {[i \in 1..n |-> [speaker |-> rows[p[i]].speaker,
                               message |-> rows[p[i]].message,
                               timestamp |-> rows[p[i]].timestamp]] : p \in Orders}

\* the rows `ORDER BY created_at DESC LIMIT 1` may return: any row with the
\* greatest created_at (the order among equal keys is not defined)
LatestRows(states) ==
    {i \in DOMAIN states :
        \A j \in DOMAIN states : states[j].created_at <= states[i].created_at}

\* get_latest_design_state: the values it may return
GetLatestDesignState(states) ==
    IF states = <<>> THEN {NoneVal}
    ELSE {JsonValue(states[i].state_json) : i \in LatestRows(states)}

\* get_latest_instructions: the instruction text of the latest snapshot
GetLatestInstructions(states) ==
    IF states = <<>> THEN {NoneText}
    ELSE {states[i].instructions : i \in LatestRows(states)}

\* ------------------------------------------------------------------ prompt
\* DEFAULT_INSTRUCTIONS_TEMPLATE: the static text, then the one replacement
\* field the template holds
DEFAULT_INSTRUCTIONS_TEMPLATE == <<"STATIC", "{design_state_json}", "NL">>

\* str.format(**kw): every replacement field of the template is replaced by
\* its keyword argument; keyword arguments the template does not name are
\* ignored
RECURSIVE Format(_, _)
Format(tpl, kw) ==
    IF tpl = <<>> THEN <<>>
    ELSE (IF Head(tpl) \in DOMAIN kw THEN kw[Head(tpl)] ELSE <<Head(tpl)>>)
             \o Format(Tail(tpl), kw)

\* _get_current_design_state
GetCurrentDesignState(latest) ==
    IF ~Truthy(latest) THEN DEFAULT_DESIGN_STATE ELSE latest

\* _get_system_instructions, given what the two lookups returned
GetSystemInstructions(latest, instr) ==
    LET design_state_json == <<JsonDumps(GetCurrentDesignState(latest))>>
        custom_instructions == IF instr \in {NoneText, <<>>} THEN <<>> ELSE instr
    IN  Format(DEFAULT_INSTRUCTIONS_TEMPLATE,
               [k \in {"{design_state_json}", "{custom_instructions}"} |->
                   IF k = "{design_state_json}" THEN design_state_json
                   ELSE custom_instructions])

\* what the remote session holds: the prompt, and the stored instructions the
\* prompt was built from
Remote(latest, instr) ==
    [prompt |-> GetSystemInstructions(latest, instr), custom |-> instr]

NoRemote == [prompt |-> <<>>, custom |-> NoneText]

\* ------------------------------------------------------------------ init
\* The database file outlives the process: a session may be resumed with a
\* snapshot written by an earlier run (instructions NULL or text).
InitialSnapshots ==
    {<<>>}
    \cup {<<[session |-> session_id, state_json |-> "J1", instructions |-> i,
              created_at |-> 0]>> :
             i \in {NoneText, <<"G1">>}}

\* no call has been made on the store from outside the bridge
NoCall ==
    [op |-> "None", session |-> "None", raised |-> FALSE, state |-> NoneVal,
     speaker |-> "None", message |-> <<>>]

\* the bridge as its constructor leaves it, over the store as earlier runs
\* left it
InitSessionOver(snapshots) ==
    /\ current_user_transcript = <<>>
    /\ current_agent_response = <<>>
    /\ last_speaker = "None"
    /\ connection = "None"
    /\ is_listening = FALSE
    /\ started = FALSE
    /\ remote = NoRemote
    /\ conversation = <<>>
    /\ design_states \in snapshots
    /\ clock = 0
    /\ threads = <<>>
    /\ delivered = <<>>
    /\ handshake = "None"
    /\ start_result = "None"
    /\ voice_active = FALSE
    /\ ui_status = "None"
    /\ sessions = {session_id}
    /\ last_call = NoCall

InitSession == InitSessionOver(InitialSnapshots)

\* the working directory exists and holds no exported document
NoFiles == {}
InitialDirs == {"cwd"}

\* nothing has been exported, no diagram manager call and no _extract_json
\* call has been made
NoExport == [ok |-> FALSE, message |-> "None", path |-> <<>>, session |-> "None",
             output_dir |-> "None"]
NoDiagrams == {}
NoHash == <<"None">>
NoGenerate ==
    [flows |-> <<>>, called |-> FALSE, changed |-> FALSE, invoked |-> {}, returned |-> {}]
NoExtract == [text |-> <<>>, called |-> FALSE, value |-> NoneVal]

ToolsIdle ==
    /\ files = NoFiles
    /\ dirs = InitialDirs
    /\ export_result = NoExport
    /\ flow_diagrams = NoDiagrams
    /\ current_flows_hash = NoHash
    /\ last_generate = NoGenerate
    /\ extract_call = NoExtract

Init == InitSession /\ ToolsIdle

\* a tool used on its own, without a session in the store
InitTools == InitSessionOver({<<>>}) /\ ToolsIdle

\* ------------------------------------------------------------------ bridge
\* what connection.start(options) may do: return a value that is not False,
\* return False, or raise
Handshakes == {"True", "False", "raises"}

\* a start_conversation that takes the session for open whatever the
\* handshake did
StartConversation_IgnoresHandshake(outcome, listening) ==
    [is_listening |-> TRUE, result |-> TRUE]

\* start_conversation, lines 119-130: the flag and the return value the
\* outcome of the handshake leads to
StartConversation(outcome, listening) ==
    IF outcome = "True"
    THEN [is_listening |-> TRUE, result |-> TRUE]
    ELSE [is_listening |-> listening, result |-> FALSE]

\* AnthropicDeepgramAgent.start -> DeepgramConversationAgent.start_conversation
Start(outcome) ==
    /\ ~started
    /\ started' = TRUE
    /\ connection' = "ws"
    /\ handshake' = outcome
    /\ LET call == StartConversation(outcome, is_listening)
       IN  /\ is_listening' = call.is_listening
           /\ start_result' = IF call.result THEN "True" ELSE "False"
           /\ \E latest \in GetLatestDesignState(SessionRows(design_states, session_id)),
                  instr \in GetLatestInstructions(SessionRows(design_states, session_id)) :
                 remote' = IF outcome = "True" THEN Remote(latest, instr) ELSE remote
    /\ UNCHANGED <<bridge_vars, store_vars, threads, delivered, api_vars, side_vars>>

\* main() of anthropic_deepgram_agent.py and of scripts/test_deepgram.py:
\* await agent.start().  A bridge is driven by a script or by the UI.
MainStart(outcome) ==
    /\ ui_status = "None"
    /\ Start(outcome)
    /\ UNCHANGED ui_vars

\* the call agent.start(*args) as Python binds it: start takes no argument
\* besides self; with any other number the call is a TypeError and the body
\* does not run
AgentStartBinds(args) == Len(args) = 0

\* start_live_voice_session: the agent is constructed, start is called with
\* custom_instructions, and voice_active is set when start returned True;
\* any exception ends in the except clause
StartLiveVoiceSession(outcome) ==
    /\ ui_status = "None"
    /\ ~started
    /\ IF AgentStartBinds(<<"custom_instructions">>)
       THEN /\ Start(outcome)
            /\ voice_active' = (start_result' = "True")
            /\ ui_status' = IF start_result' = "True"
                            THEN "Voice session started successfully"
                            ELSE "Failed to start voice session"
       ELSE /\ ui_status' = "Error starting voice session"
            /\ UNCHANGED <<bridge_vars, link_vars, store_vars, threads, delivered,
                           voice_active, api_vars, side_vars>>

\* a new refresh thread, about to call DesignAgent.process.  read and wrote
\* are history: how many messages the transcript held when process read it,
\* and which row of the design_state table the thread wrote (0: none);
\* fragment and transcript are history too: the fragment whose handler
\* started the thread and the messages the transcript held at thread.start()
NewThread ==
    [pc |-> "process", current_state |-> NoneVal,
     previous_custom_instructions |-> NoneText, updated_state |-> NoneVal,
     response |-> <<>>, result |-> NoneVal, raised |-> FALSE,
     read |-> 0, wrote |-> 0, fragment |-> 0, transcript |-> 0,
     pushed |-> "None"]

\* a thread that has ended: its locals are gone; what stays is whether it
\* ended in its except clause, what process returned to it and, for a thread
\* that went as far as update_design_state, the history of its read and write
Finished(thread, raised) ==
    [NewThread EXCEPT !.pc = "done", !.raised = raised,
                      !.result = IF raised THEN NoneVal ELSE thread.result,
                      !.read = IF thread.wrote > 0 THEN thread.read ELSE 0,
                      !.wrote = thread.wrote,
                      !.fragment = thread.fragment,
                      !.transcript = thread.transcript]

\* add_conversation_message as the bridge calls it: the table after the call.
\* The bridge's session was created before the bridge (create_session,
\* app.py line 43, test_deepgram.py line 86) and no operation deletes a
\* session, so the call finds it.
Saved(conv, speaker, message, now) ==
    AddConversationMessage(sessions, conv, session_id, speaker, message, now).rows

\* events reach the handlers while the remote session is open
Listening == connection = "ws" /\ is_listening

\* _handle_user_transcript(text)
HandleUserTranscript(text) ==
    /\ Listening
    /\ Len(delivered) < MaxFragments
    /\ IF last_speaker \in {"agent", "None"}
       THEN /\ current_user_transcript' = text
            /\ last_speaker' = "user"
       ELSE /\ current_user_transcript' = current_user_transcript \o SPACE \o text
            /\ UNCHANGED last_speaker
    /\ delivered' = Append(delivered, [speaker |-> "user", text |-> text])
    /\ UNCHANGED <<current_agent_response, link_vars, store_vars, threads, env_vars>>

\* _handle_agent_response(response), the branch that opens an agent turn:
\* the user turn is saved, the first agent fragment is saved, a refresh
\* thread is started
AgentTurnStarts(response) ==
    /\ last_speaker = "user"
    /\ Len(threads) < MaxRefreshes
    /\ \E d1 \in ClockSteps :
        LET conv1 == Saved(conversation, "user",
                                            current_user_transcript, clock + d1)
        IN  \E d2 \in {d \in {0, 1} : d = 0 =>
                          Ties + (IF d1 = 0 THEN 1 ELSE 0) < MaxTies} :
              /\ conversation' = Saved(conv1, "agent", response,
                                                        clock + d1 + d2)
              /\ clock' = clock + d1 + d2
    /\ current_agent_response' = response
    /\ last_speaker' = "agent"
    /\ threads' = Append(threads,
                         [NewThread EXCEPT !.fragment = Len(delivered) + 1,
                                           !.transcript = Len(conversation')])
    /\ UNCHANGED <<current_user_transcript, design_states>>

\* _handle_agent_response(response), the branch that continues: the fragment
\* is appended to the buffer and nothing else happens
AgentTurnContinues(response) ==
    /\ last_speaker # "user"
    /\ current_agent_response' = current_agent_response \o SPACE \o response
    /\ UNCHANGED <<current_user_transcript, last_speaker, store_vars, threads>>

\* _handle_agent_response(response)
HandleAgentResponse(response) ==
    /\ Listening
    /\ Len(delivered) < MaxFragments
    /\ \/ AgentTurnStarts(response)
       \/ AgentTurnContinues(response)
    /\ delivered' = Append(delivered, [speaker |-> "agent", text |-> response])
    /\ UNCHANGED <<link_vars, env_vars>>

\* a stop_conversation that closes the websocket and leaves the flag
StopConversation_LeavesListening(conn, listening) ==
    [connection |-> "None", is_listening |-> listening]

\* stop_conversation: with a connection, finish() is called (an exception of
\* it is caught) and both fields are reset; without one nothing happens
StopConversation(conn, listening) ==
    IF conn = "None"
    THEN [connection |-> conn, is_listening |-> listening]
    ELSE [connection |-> "None", is_listening |-> FALSE]

\* AnthropicDeepgramAgent.stop -> DeepgramConversationAgent.stop_conversation
Stop ==
    /\ connection = "ws"
    /\ IF last_speaker = "agent" /\ current_agent_response # <<>>
       THEN \E dt \in ClockSteps :
              /\ conversation' = Saved(conversation, "agent",
                                     current_agent_response, clock + dt)
              /\ clock' = clock + dt
       ELSE UNCHANGED <<conversation, clock>>
    /\ current_user_transcript' = <<>>
    /\ current_agent_response' = <<>>
    /\ last_speaker' = "None"
    /\ LET out == StopConversation(connection, is_listening)
       IN  /\ connection' = out.connection
           /\ is_listening' = out.is_listening
    /\ UNCHANGED <<started, remote, handshake, start_result, design_states, threads,
                   delivered, env_vars>>

\* _on_close: the remote side closed the connection
OnClose ==
    /\ connection = "ws"
    /\ is_listening
    /\ is_listening' = FALSE
    /\ UNCHANGED <<bridge_vars, connection, started, remote, handshake, start_result,
                   store_vars, threads, delivered, env_vars>>

\* ------------------------------------------------------------------ DesignAgent
\* the three backquotes that open and close a fenced block
FENCE == "FENCE"

\* what the model may answer to the design prompt: prose, raw JSON, the JSON
\* text null, a fenced block (with and without the json tag, with text
\* around it), a fenced block that is not JSON next to text that is, and an
\* opening fence that is never closed
DesignResponses ==
    { <<"prose">>,
      <<"J1">>,
      <<"NULL">>,
      <<"prose", FENCE, "json", "J2", FENCE, "prose">>,
      <<FENCE, "J0", FENCE>>,
      <<FENCE, "bad", FENCE, "J1">>,
      <<FENCE, "J1">> }

\* what the model may answer to the instruction prompt: the sentinel (after
\* white space), new guidance, and guidance that names the sentinel later on
InstructionResponses ==
    { <<"ws", "NO_CHANGE:", "why">>,
      <<"G2", "ws">>,
      <<"G3", "NO_CHANGE:">> }

Fences(text) == {i \in DOMAIN text : text[i] = FENCE}

Least(S) == CHOOSE x \in S : \A y \in S : x <= y

\* re.search of fence, optional json tag, lazy group, fence: the text between
\* the first fence (and its json tag) and the next fence
FencedBlock(text) ==
    IF Cardinality(Fences(text)) < 2 THEN [found |-> FALSE, group |-> <<>>]
    ELSE LET open == Least(Fences(text))
             close == Least(Fences(text) \ {open})
             from == IF open + 1 < close /\ text[open + 1] = "json"
                     THEN open + 2 ELSE open + 1
         IN  [found |-> TRUE, group |-> SubSeq(text, from, close - 1)]

\* json.loads(json_str): the value, or its JSONDecodeError
JsonLoads(json_str) ==
    IF Len(json_str) = 1 /\ json_str[1] \in JsonTexts
    THEN JsonValue(json_str[1])
    ELSE "JSONDecodeError"

\* a parser that, when the fenced block does not parse, takes the first JSON
\* text it finds anywhere in the response
ExtractJson_Lenient(text) ==
    LET json_match == FencedBlock(text)
        json_str == IF json_match.found THEN json_match.group ELSE text
        loaded == JsonLoads(json_str)
        found == {i \in DOMAIN text : text[i] \in JsonTexts}
    IN  IF loaded # "JSONDecodeError" THEN loaded
        ELSE IF found = {} THEN NoneVal ELSE JsonValue(text[Least(found)])

\* DesignAgent._extract_json
ExtractJson(text) ==
    LET json_match == FencedBlock(text)
        json_str == IF json_match.found THEN json_match.group ELSE text
        loaded == JsonLoads(json_str)
    IN  IF loaded = "JSONDecodeError" THEN NoneVal ELSE loaded

\* str.strip() on the instruction response
RECURSIVE LStrip(_)
LStrip(text) ==
    IF text # <<>> /\ Head(text) = "ws" THEN LStrip(Tail(text)) ELSE text

RECURSIVE RStrip(_)
RStrip(text) ==
    IF text # <<>> /\ text[Len(text)] = "ws"
    THEN RStrip(SubSeq(text, 1, Len(text) - 1)) ELSE text

Strip(text) == RStrip(LStrip(text))

\* custom_instruction_text.startswith("NO_CHANGE:")
IsNoChange(text) == text # <<>> /\ Head(text) = "NO_CHANGE:"

\* process, lines 71-78: the instructions to store
CustomInstructions(custom_instruction_text, previous_custom_instructions) ==
    IF IsNoChange(custom_instruction_text)
    THEN IF previous_custom_instructions \in {NoneText, <<>>}
         THEN <<>> ELSE previous_custom_instructions
    ELSE custom_instruction_text

\* update_design_state with a third, optional parameter that is never stored
UpdateDesignStateCall_DropsInstructions(states, args, now) ==
    UpdateDesignState(sessions, states, args[1], args[2], now)

\* the call update_design_state(*args) as Python binds it: the function takes
\* (session_id, state); any other number of positional arguments is a
\* TypeError raised before the body runs
UpdateDesignStateCall(states, args, now) ==
    IF Len(args) = 2
    THEN UpdateDesignState(sessions, states, args[1], args[2], now)
    ELSE [raised |-> TRUE, states |-> states]

\* a parse failure that falls back to the empty template and saves it
ProcessParseFailure_PersistsDefault(states, current_state, now) ==
    [states |-> UpdateDesignState(sessions, states, session_id,
                                  DEFAULT_DESIGN_STATE, now).states,
     result |-> DEFAULT_DESIGN_STATE]

\* a parse failure that returns the empty template
ProcessParseFailure_ReturnsTemplate(states, current_state, now) ==
    [states |-> states, result |-> DEFAULT_DESIGN_STATE]

\* process, lines 51-55: what a parse failure leaves in the store and returns
ProcessParseFailure(states, current_state, now) ==
    [states |-> states, result |-> current_state]

\* process, lines 26-33: the reads that open the call
ProcessReads(t) ==
    /\ threads[t].pc = "process"
    /\ \E latest \in GetLatestDesignState(SessionRows(design_states, session_id)),
          instr \in GetLatestInstructions(SessionRows(design_states, session_id)) :
         threads' = [threads EXCEPT
            ![t].pc = "design",
            ![t].current_state = IF Truthy(latest) THEN latest
                                 ELSE DEFAULT_DESIGN_STATE,
            ![t].previous_custom_instructions = instr,
            ![t].read = Len(SessionRows(conversation, session_id))]
    /\ UNCHANGED <<bridge_vars, link_vars, store_vars, delivered, env_vars>>

\* process, lines 38-55: the design response arrives and is parsed; on a
\* parse failure process returns, otherwise it asks for instructions
ProcessDesignResponse(t, text) ==
    /\ threads[t].pc = "design"
    /\ LET updated_state == ExtractJson(text)
       IN  IF updated_state = NoneVal
           THEN \E dt \in ClockSteps :
                  LET out == ProcessParseFailure(design_states,
                                 threads[t].current_state, clock + dt)
                  IN  /\ design_states' = out.states
                      /\ clock' = IF out.states = design_states THEN clock
                                  ELSE clock + dt
                      /\ threads' = [threads EXCEPT
                            ![t].pc = "refresh",
                            ![t].response = text,
                            ![t].result = out.result]
           ELSE /\ threads' = [threads EXCEPT
                      ![t].pc = "instr",
                      ![t].response = text,
                      ![t].updated_state = updated_state]
                /\ UNCHANGED <<design_states, clock>>
    /\ UNCHANGED <<bridge_vars, link_vars, conversation, delivered, env_vars>>

\* process, lines 57-84: the instruction response arrives, the instructions
\* to store are chosen and update_design_state is called with the session,
\* the state and the instructions; an exception leaves process and is caught
\* by the thread (update_design_state_thread, line 168)
ProcessInstructionResponse(t, text) ==
    /\ threads[t].pc = "instr"
    /\ \E dt \in ClockSteps :
        LET custom_instructions ==
                CustomInstructions(Strip(text),
                                   threads[t].previous_custom_instructions)
            call == UpdateDesignStateCall(design_states,
                        <<session_id, threads[t].updated_state,
                          custom_instructions>>, clock + dt)
        IN  /\ design_states' = call.states
            /\ clock' = IF call.states = design_states THEN clock ELSE clock + dt
            /\ threads' = [threads EXCEPT
                  ![t] = IF call.raised
                         THEN [Finished(threads[t], TRUE) EXCEPT
                                  !.response = text,
                                  !.previous_custom_instructions =
                                      threads[t].previous_custom_instructions,
                                  !.read = threads[t].read]
                         ELSE [threads[t] EXCEPT
                                  !.pc = "refresh",
                                  !.response = text,
                                  !.result = threads[t].updated_state,
                                  !.wrote = Len(call.states)]]
    /\ UNCHANGED <<bridge_vars, link_vars, conversation, delivered, env_vars>>

\* the exception of the model call is not caught in the thread and reaches
\* the event dispatch of the connection, which stops delivering
ModelCallRaises_Propagates(t) ==
    /\ threads[t].pc \in {"design", "instr"}
    /\ threads' = [threads EXCEPT ![t] = Finished(threads[t], TRUE)]
    /\ is_listening' = FALSE
    /\ UNCHANGED <<bridge_vars, connection, started, remote, handshake,
                   start_result, store_vars, delivered, env_vars>>

\* provider.create_message raises (transport failure): the exception leaves
\* process and is caught by the thread
ModelCallRaises(t) ==
    /\ threads[t].pc \in {"design", "instr"}
    /\ threads' = [threads EXCEPT ![t] = Finished(threads[t], TRUE)]
    /\ UNCHANGED <<bridge_vars, link_vars, store_vars, delivered, env_vars>>

\* update_instructions that tests the connection only
UpdateInstructions_IgnoresListening(new, sent) ==
    IF connection = "ws" /\ sent
    THEN [remote |-> new, result |-> "True"]
    ELSE [remote |-> remote, result |-> "False"]

\* DeepgramConversationAgent.update_instructions: what the remote session
\* holds after the call, and what the call returns; sent says whether
\* connection.send accepted the message (it may return False or raise)
UpdateInstructions(new, sent) ==
    IF connection = "ws" /\ is_listening /\ sent
    THEN [remote |-> new, result |-> "True"]
    ELSE [remote |-> remote, result |-> "False"]

\* _refresh_system_instructions, run by the thread after process returned
RefreshSystemInstructions(t, sent) ==
    /\ threads[t].pc = "refresh"
    /\ \E latest \in GetLatestDesignState(SessionRows(design_states, session_id)),
          instr \in GetLatestInstructions(SessionRows(design_states, session_id)) :
         LET call == UpdateInstructions(Remote(latest, instr), sent)
         IN  /\ remote' = call.remote
             /\ threads' = [threads EXCEPT
                   ![t] = [Finished(threads[t], FALSE) EXCEPT
                              !.pushed = call.result]]
    /\ UNCHANGED <<bridge_vars, connection, is_listening, started, handshake,
                   start_result, store_vars, delivered, env_vars>>

\* refreshes run one after the other on a single worker: a thread waits for
\* every thread started before it
Refresh_Serial(t) ==
    /\ \A u \in 1..(t - 1) : threads[u].pc = "done"
    /\ \/ ProcessReads(t)
       \/ \E text \in DesignResponses : ProcessDesignResponse(t, text)
       \/ \E text \in InstructionResponses : ProcessInstructionResponse(t, text)
       \/ ModelCallRaises(t)
       \/ \E sent \in BOOLEAN : RefreshSystemInstructions(t, sent)

\* update_design_state_thread: one step of thread t
Refresh(t) ==
    \/ ProcessReads(t)
    \/ \E text \in DesignResponses : ProcessDesignResponse(t, text)
    \/ \E text \in InstructionResponses : ProcessInstructionResponse(t, text)
    \/ ModelCallRaises(t)
    \/ \E sent \in BOOLEAN : RefreshSystemInstructions(t, sent)

Next ==
    \/ \E outcome \in Handshakes : MainStart(outcome)
    \/ \E outcome \in Handshakes : StartLiveVoiceSession(outcome)
    \/ HandleUserTranscript(Fragment(Len(delivered) + 1))
    \/ HandleAgentResponse(Fragment(Len(delivered) + 1))
    \/ Stop
    \/ OnClose
    \/ \E t \in DOMAIN threads : Refresh(t)

Spec == Init /\ [][Next]_vars

\* ------------------------------------------------------------------ store calls
\* The functions of paid.database.operations called directly (the UI, the
\* scripts and the tests do), on the session of the bridge and on a second
\* session id that exists only once create_session has made it.

\* the design states and the messages the callers pass
CallStates == {"S1", "S2"}
CallMessages == {<<"m">>}

\* create_session: a new row under an id no row has yet
CreateSession ==
    /\ \E id \in SessionIds \ sessions :
          /\ sessions' = sessions \cup {id}
          /\ last_call' = [NoCall EXCEPT !.op = "create_session", !.session = id]
    /\ UNCHANGED <<bridge_vars, link_vars, store_vars, threads, delivered, ui_vars,
                   side_vars>>

\* update_design_state(id, state) called from outside the bridge
CallUpdateDesignState(id, state) ==
    /\ Len(design_states) < MaxSnapshots
    /\ \E dt \in ClockSteps :
          LET call == UpdateDesignState(sessions, design_states, id, state, clock + dt)
          IN  /\ design_states' = call.states
              /\ clock' = IF call.raised THEN clock ELSE clock + dt
              /\ last_call' = [NoCall EXCEPT !.op = "update_design_state",
                                             !.session = id,
                                             !.raised = call.raised,
                                             !.state = state]
    /\ UNCHANGED <<bridge_vars, link_vars, conversation, threads, delivered,
                   ui_vars, sessions, side_vars>>

\* add_conversation_message(id, speaker, message) called from outside the
\* bridge
CallAddConversationMessage(id, speaker, message) ==
    /\ Len(conversation) < MaxMessages
    /\ \E dt \in ClockSteps :
          LET call == AddConversationMessage(sessions, conversation, id, speaker,
                                             message, clock + dt)
          IN  /\ conversation' = call.rows
              /\ clock' = IF call.raised THEN clock ELSE clock + dt
              /\ last_call' = [NoCall EXCEPT !.op = "add_conversation_message",
                                             !.session = id,
                                             !.raised = call.raised,
                                             !.speaker = speaker,
                                             !.message = message]
    /\ UNCHANGED <<bridge_vars, link_vars, design_states, threads, delivered,
                   ui_vars, sessions, side_vars>>

NextStore ==
    \/ CreateSession
    \/ \E id \in SessionIds, state \in CallStates : CallUpdateDesignState(id, state)
    \/ \E id \in SessionIds, speaker \in {"user", "agent"}, message \in CallMessages :
          CallAddConversationMessage(id, speaker, message)

SpecStore == Init /\ [][NextStore]_vars

\* ------------------------------------------------------------------ export
\* A document is a dictionary: a function from its keys to its values, texts
\* being token sequences and lists being sequences; {} is <<>>.
Has(d, k) == k \in DOMAIN d

\* d.get(k) where the export only tests the result for truth and reads it
\* when it is true: None, "" and [] all take the same branch
Get(d, k) == IF Has(d, k) THEN d[k] ELSE <<>>

\* the truth of a text or a list
NonEmpty(x) == Len(x) > 0

DefaultDocument ==
    [Paid |->
        [meta |-> [title |-> <<>>, createdAt |-> <<>>, updatedAt |-> <<>>],
         problem |-> [statement |-> <<>>, currentSolutions |-> <<>>, painPoints |-> <<>>],
         users |-> [personas |-> <<[name |-> <<>>, demographics |-> <<>>, behaviors |-> <<>>,
                                    jobsToBeDone |-> <<>>, frustrations |-> <<>>]>>],
         valueProposition |-> [oneLiner |-> <<>>, primaryBenefit |-> <<>>,
                               uniqueDifferentiators |-> <<>>],
         approach |-> [coreConcept |-> <<>>, mvpFeatures |-> <<>>,
                       technicalConsiderations |-> <<>>],
         userExperience |->
            [summary |-> <<>>,
             userFlows |-> <<[flowName |-> <<>>, description |-> <<>>,
                              steps |-> <<[step |-> <<"1">>, name |-> <<>>,
                                           description |-> <<>>]>>]>>]]]

FullDocument ==
    [Paid |->
        [meta |-> [title |-> <<"T", "#">>, createdAt |-> <<"c">>, updatedAt |-> <<"u">>],
         problem |-> [statement |-> <<"# ", "x">>, currentSolutions |-> <<"s">>,
                      painPoints |-> << <<"p1">>, <<"p2">> >>],
         users |-> [personas |-> <<[name |-> <<"n">>, demographics |-> <<"d">>,
                                    jobsToBeDone |-> << <<"j">> >>],
                                   [name |-> <<>>, behaviors |-> <<"hidden">>]>>],
         valueProposition |-> [oneLiner |-> <<"o">>, uniqueDifferentiators |-> << <<"u1">> >>],
         approach |-> [coreConcept |-> <<"k">>, mvpFeatures |-> << <<"f">> >>],
         userExperience |->
            [summary |-> <<"y">>,
             userFlows |-> <<[flowName |-> <<"F">>, description |-> <<"fd">>,
                              steps |-> <<[step |-> <<"1">>, name |-> <<"open">>,
                                           description |-> <<"sd">>],
                                          [step |-> <<"2">>, name |-> <<"close">>],
                                          [name |-> <<"unnumbered">>]>>]>>]]]

\* the document a design state stands for
Dict(v) ==
    CASE v = DEFAULT_DESIGN_STATE -> DefaultDocument
      [] v = "S0" -> <<>>
      [] v = "S1" -> [Paid |-> [meta |-> [title |-> <<"S", "1">>],
                                problem |-> [statement |-> <<"one">>]]]
      [] v = "S2" -> [Paid |-> [meta |-> [title |-> <<"S", "2">>],
                                problem |-> [statement |-> <<"two">>]]]
      [] v = "E1" -> [Other |-> <<"o">>]
      [] v = "E2" -> [Paid |-> <<>>]
      [] v = "E3" -> [Paid |-> [meta |-> <<>>, problem |-> <<>>]]
      [] v = "E4" -> [Paid |-> [meta |-> [title |-> <<>>], problem |-> [statement |-> <<>>]]]
      [] v = "E5" -> [Paid |-> [meta |-> [title |-> <<"A", " ", "b">>],
                                problem |-> [statement |-> <<"p", "q">>]]]
      [] v = "E6" -> FullDocument
      [] v = "E7" -> [Paid |-> [meta |-> [title |-> <<"a", "-", "b">>, updatedAt |-> <<"u">>]]]
      [] v = "E8" -> [Paid |-> [problem |-> [statement |-> <<"p">>,
                                             painPoints |-> << <<"p1">> >>]]]

\* `not design_state or "Paid" not in design_state`
NoPaid(v) == ~Truthy(v) \/ ~Has(Dict(v), "Paid")

RECURSIVE Concat(_)
Concat(ss) == IF Len(ss) = 0 THEN <<>> ELSE Head(ss) \o Concat(Tail(ss))

Blank == <<>>

DEFAULT_TITLE == <<"# Product Requirements Document">>
NO_DESIGN == <<"# No design information available">>
START_A_CONVERSATION == <<"Start a conversation to build your PRD.">>
PROBLEM_HEADER == <<"## Problem Statement">>

\* a heading, a blank line, the text and a blank line, when the text is set
TextSection(header, text) ==
    IF NonEmpty(text) THEN <<header, Blank, text, Blank>> ELSE <<>>

\* a heading, a blank line, one bullet per item and a blank line
ListSection(header, items) ==
    IF NonEmpty(items)
    THEN <<header, Blank>> \o [i \in 1..Len(items) |-> <<"- ">> \o items[i]] \o <<Blank>>
    ELSE <<>>

\* title lines that ignore the stored title
TitleLines_AlwaysDefault(paid, now) ==
    <<DEFAULT_TITLE, Blank>>

\* the title and the metadata line
TitleLines(paid, now) ==
    IF Has(paid, "meta")
    THEN LET meta == paid["meta"]
             metadata ==
                (IF NonEmpty(Get(meta, "createdAt"))
                 THEN <<<<"**Created:** ">> \o meta["createdAt"]>> ELSE <<>>)
                \o (IF NonEmpty(Get(meta, "updatedAt"))
                    THEN <<<<"**Last Updated:** ">> \o meta["updatedAt"]>> ELSE <<>>)
             joined ==
                IF Len(metadata) = 2 THEN metadata[1] \o <<" | ">> \o metadata[2]
                ELSE Concat(metadata)
         IN  (IF NonEmpty(Get(meta, "title"))
              THEN <<<<"# ">> \o meta["title"], Blank>>
              ELSE <<DEFAULT_TITLE, Blank>>)
             \o (IF NonEmpty(metadata) THEN <<joined, Blank>> ELSE <<>>)
    ELSE <<DEFAULT_TITLE, Blank, <<"**Generated:** ", ToString(now)>>, Blank>>

ProblemLines(paid) ==
    IF Has(paid, "problem")
    THEN LET problem == paid["problem"]
         IN  <<PROBLEM_HEADER, Blank>>
             \o (IF NonEmpty(Get(problem, "statement"))
                 THEN <<problem["statement"], Blank>> ELSE <<>>)
             \o TextSection(<<"### Current Solutions">>, Get(problem, "currentSolutions"))
             \o ListSection(<<"### Pain Points">>, Get(problem, "painPoints"))
    ELSE <<>>

PersonaLines(persona) ==
    IF NonEmpty(Get(persona, "name"))
    THEN <<<<"### Persona: ">> \o persona["name"], Blank>>
         \o TextSection(<<"#### Demographics">>, Get(persona, "demographics"))
         \o TextSection(<<"#### Behaviors">>, Get(persona, "behaviors"))
         \o ListSection(<<"#### Jobs to be Done">>, Get(persona, "jobsToBeDone"))
         \o ListSection(<<"#### Frustrations">>, Get(persona, "frustrations"))
    ELSE <<>>

UsersLines(paid) ==
    IF Has(paid, "users") /\ Has(paid["users"], "personas")
       /\ Len(paid["users"]["personas"]) > 0
    THEN LET personas == paid["users"]["personas"]
         IN  <<<<"## User Personas">>, Blank>>
             \o Concat([i \in 1..Len(personas) |-> PersonaLines(personas[i])])
    ELSE <<>>

ValuePropositionLines(paid) ==
    IF Has(paid, "valueProposition")
    THEN LET vp == paid["valueProposition"]
         IN  <<<<"## Value Proposition">>, Blank>>
             \o (IF NonEmpty(Get(vp, "oneLiner"))
                 THEN <<<<"> ">> \o vp["oneLiner"], Blank>> ELSE <<>>)
             \o TextSection(<<"### Primary Benefit">>, Get(vp, "primaryBenefit"))
             \o ListSection(<<"### Unique Differentiators">>, Get(vp, "uniqueDifferentiators"))
    ELSE <<>>

ApproachLines(paid) ==
    IF Has(paid, "approach")
    THEN LET approach == paid["approach"]
         IN  <<<<"## Approach">>, Blank>>
             \o TextSection(<<"### Core Concept">>, Get(approach, "coreConcept"))
             \o ListSection(<<"### MVP Features">>, Get(approach, "mvpFeatures"))
             \o ListSection(<<"### Technical Considerations">>,
                            Get(approach, "technicalConsiderations"))
    ELSE <<>>

StepLine(step) ==
    IF Has(step, "step") /\ Has(step, "name")
    THEN <<step["step"] \o <<". **">> \o step["name"] \o <<"**">>
           \o (IF Has(step, "description") THEN <<": ">> \o step["description"] ELSE <<>>)>>
    ELSE <<>>

FlowLines(flow) ==
    IF NonEmpty(Get(flow, "flowName"))
    THEN LET steps == Get(flow, "steps")
         IN  <<<<"#### ">> \o flow["flowName"], Blank>>
             \o (IF NonEmpty(Get(flow, "description"))
                 THEN <<flow["description"], Blank>> ELSE <<>>)
             \o (IF NonEmpty(steps)
                 THEN <<<<"**Steps:**">>, Blank>>
                      \o Concat([i \in 1..Len(steps) |-> StepLine(steps[i])])
                      \o <<Blank>>
                 ELSE <<>>)
    ELSE <<>>

UserExperienceLines(paid) ==
    IF Has(paid, "userExperience")
    THEN LET ux == paid["userExperience"]
             flows == Get(ux, "userFlows")
         IN  <<<<"## User Experience">>, Blank>>
             \o (IF NonEmpty(Get(ux, "summary")) THEN <<ux["summary"], Blank>> ELSE <<>>)
             \o (IF NonEmpty(flows)
                 THEN <<<<"### User Flows">>, Blank>>
                      \o Concat([i \in 1..Len(flows) |-> FlowLines(flows[i])])
                 ELSE <<>>)
    ELSE <<>>

\* generate_md_from_design_state: the lines of the document
GenerateMdFromDesignState(v, now) ==
    IF NoPaid(v) THEN <<NO_DESIGN, Blank, START_A_CONVERSATION>>
    ELSE LET paid_data == Dict(v)["Paid"]
         IN  TitleLines(paid_data, now) \o ProblemLines(paid_data)
             \o UsersLines(paid_data) \o ValuePropositionLines(paid_data)
             \o ApproachLines(paid_data) \o UserExperienceLines(paid_data)

\* title.lower(), one character of it
Lower(c) ==
    CASE c = "A" -> "a"
      [] c = "S" -> "s"
      [] c = "T" -> "t"
      [] OTHER -> c

\* the characters the pattern [^\w\-_] leaves alone
WordChars == {"a", "b", "s", "t", "1", "2", "-", "_"}

DEFAULT_FILENAME == <<"product_requirements_document", ".md">>

\* the name of the exported file
FileName(v) ==
    LET paid == Dict(v)["Paid"]
        title == IF Has(paid, "meta") THEN Get(paid["meta"], "title") ELSE <<>>
    IN  IF NonEmpty(title)
        THEN [i \in 1..Len(title) |->
                 IF Lower(title[i]) \in WordChars THEN Lower(title[i]) ELSE "_"]
             \o <<".md">>
        ELSE DEFAULT_FILENAME

\* open(path, 'w') and write: the file of that path holds the content
WriteFile(fs, dir, name, content) ==
    {f \in fs : ~(f.dir = dir /\ f.name = name)}
        \cup {[dir |-> dir, name |-> name, content |-> content]}

\* the faults of the file system during one export
Faults == {"none", "makedirs", "open"}

OutputDirs == {"None", "out"}

\* save_prd_to_file: the result and the file system after it
SavePrdToFile(fs, ds, v, dir, name, fault, now) ==
    IF fault = "open"
    THEN [ok |-> FALSE, message |-> "Error saving PRD", path |-> <<>>,
          files |-> fs, dirs |-> ds]
    ELSE [ok |-> TRUE, message |-> "PRD successfully saved to",
          path |-> <<dir, "/">> \o name,
          files |-> WriteFile(fs, dir, name, GenerateMdFromDesignState(v, now)),
          dirs |-> ds \cup {dir}]

\* an export that skips the test of the design state
ExportPrdFromSession_WritesAnyway(fs, ds, v, output_dir, fault, now) ==
    LET dir == IF output_dir = "None" THEN "cwd" ELSE output_dir
    IN  SavePrdToFile(fs, ds \cup {dir}, v, dir, DEFAULT_FILENAME, fault, now)

\* export_prd_from_session, given the design state the store returned
ExportPrdFromSession(fs, ds, v, output_dir, fault, now) ==
    IF NoPaid(v)
    THEN [ok |-> FALSE, message |-> "No valid design state found for this session.",
          path |-> <<>>, files |-> fs, dirs |-> ds]
    ELSE LET dir == IF output_dir = "None" THEN "cwd" ELSE output_dir
         IN  IF dir \notin ds /\ fault = "makedirs"
             THEN [ok |-> FALSE, message |-> "Error exporting PRD", path |-> <<>>,
                   files |-> fs, dirs |-> ds]
             ELSE SavePrdToFile(fs, ds \cup {dir}, v, dir, FileName(v), fault, now)

Exported(result, id, output_dir) ==
    /\ export_result' = [ok |-> result.ok, message |-> result.message,
                         path |-> result.path, session |-> id, output_dir |-> output_dir]
    /\ files' = result.files
    /\ dirs' = result.dirs

\* a call of export_prd_from_session(id, output_dir)
CallExportPrdFromSession(id, output_dir, fault) ==
    /\ \E v \in GetLatestDesignState(SessionRows(design_states, id)) :
          Exported(ExportPrdFromSession(files, dirs, v, output_dir, fault, clock),
                   id, output_dir)
    /\ UNCHANGED <<bridge_vars, link_vars, store_vars, threads, delivered, ui_vars,
                   api_vars, diagram_vars, extract_call>>

\* the script: export_prd(session_id)
ExportPrd(id, fault) ==
    /\ \E v \in GetLatestDesignState(SessionRows(design_states, id)) :
          Exported(ExportPrdFromSession(files, dirs \cup {"outputs"}, v, "outputs",
                                        fault, clock),
                   id, "outputs")
    /\ UNCHANGED <<bridge_vars, link_vars, store_vars, threads, delivered, ui_vars,
                   api_vars, diagram_vars, extract_call>>

\* the stores an export may find: no snapshot, one snapshot of each document,
\* and a later snapshot after an earlier one
ExportSnapshots ==
    {<<>>}
    \cup {<<NewDesignStateRow(session_id, v, 0)>> : v \in StateValues \cup ExportStates}
    \cup {<<NewDesignStateRow(session_id, v, 0), NewDesignStateRow(session_id, w, 1)>> :
            v \in {"E1", "E5"}, w \in {"E1", "E5", "E6"}}

InitExport == InitSessionOver(ExportSnapshots) /\ ToolsIdle

NextExport ==
    \/ \E id \in SessionIds, output_dir \in OutputDirs, fault \in Faults :
          CallExportPrdFromSession(id, output_dir, fault)
    \/ \E id \in SessionIds, fault \in Faults : ExportPrd(id, fault)

SpecExport == InitExport /\ [][NextExport]_vars

\* ------------------------------------------------------------------ parser
\* DesignAgent._extract_json on its own, over every short response.
ResponseTokens == {FENCE, "json", "J1", "NULL", "bad"}

Responses ==
    DesignResponses
        \cup UNION {[1..n -> ResponseTokens] : n \in 0..MaxTokens}

\* a call of _extract_json(text); the parser keeps no state, so one call is
\* followed per behaviour
CallExtractJson(text) ==
    /\ ~extract_call.called
    /\ extract_call' = [text |-> text, called |-> TRUE, value |-> ExtractJson(text)]
    /\ UNCHANGED <<bridge_vars, link_vars, store_vars, threads, delivered, ui_vars,
                   api_vars, export_vars, diagram_vars>>

NextExtract == \E text \in Responses : CallExtractJson(text)

SpecExtract == InitTools /\ [][NextExtract]_vars

\* ------------------------------------------------------------------ diagrams
\* UserFlowDiagramManager on its own.  The cache maps the index of a flow to
\* its diagram code and is kept as a set of (index, code) entries.
FlowValues ==
    {[flowName |-> <<"F">>, steps |-> <<"s">>],
     [flowName |-> <<"G">>, steps |-> <<"s">>],
     [flowName |-> <<>>, steps |-> <<"s">>],
     [flowName |-> <<"F">>, steps |-> <<>>]}

UserFlows == UNION {[1..n -> FlowValues] : n \in 0..MaxFlows}

\* what generate_mermaid_diagram returns for one flow: diagram code, the
\* empty code of an empty block, or None when the agent raised
DiagramOutcomes == {"D1", "", "None"}

\* `if diagram_code`
IsDiagram(diagram_code) == diagram_code \notin {"", "None"}

\* get_user_flows_hash: the digest of the sorted JSON text stands for that
\* text (two different texts with one digest are not modelled)
GetUserFlowsHash(user_flows) ==
    IF user_flows = <<>> THEN <<"empty">> ELSE <<"md5", user_flows>>

\* a test that always reports a change
HasFlowsChanged_Always(current_hash, user_flows) ==
    [has_changed |-> TRUE, hash |-> GetUserFlowsHash(user_flows)]

\* has_flows_changed: the answer, and the hash it stores
HasFlowsChanged(current_hash, user_flows) ==
    LET new_hash == GetUserFlowsHash(user_flows)
    IN  [has_changed |-> new_hash # current_hash, hash |-> new_hash]

\* the flows a diagram is generated for: named, with at least one step
Eligible(user_flows) ==
    {i \in DOMAIN user_flows :
        NonEmpty(Get(user_flows[i], "flowName")) /\ NonEmpty(Get(user_flows[i], "steps"))}

\* generate_flow_diagrams: the cache, the hash and the flows the agent was
\* invoked for; outcome gives what the agent returns for each flow.  The
\* list index i stands for the Python index i - 1.
GenerateFlowDiagrams(cache, current_hash, user_flows, outcome) ==
    LET check == HasFlowsChanged(current_hash, user_flows)
    IN  IF ~check.has_changed
        THEN [diagrams |-> cache, hash |-> check.hash, changed |-> FALSE, invoked |-> {}]
        ELSE [diagrams |-> {[index |-> i - 1, code |-> outcome[i]] :
                               i \in {j \in Eligible(user_flows) : IsDiagram(outcome[j])}},
              hash |-> check.hash,
              changed |-> TRUE,
              invoked |-> {[index |-> i - 1, code |-> outcome[i]] :
                              i \in Eligible(user_flows)}]

\* a call of generate_flow_diagrams(user_flows)
CallGenerateFlowDiagrams(user_flows, outcome) ==
    /\ LET call == GenerateFlowDiagrams(flow_diagrams, current_flows_hash,
                                        user_flows, outcome)
       IN  /\ flow_diagrams' = call.diagrams
           /\ current_flows_hash' = call.hash
           /\ last_generate' = [flows |-> user_flows, called |-> TRUE,
                                changed |-> call.changed, invoked |-> call.invoked,
                                returned |-> call.diagrams]
    /\ UNCHANGED <<bridge_vars, link_vars, store_vars, threads, delivered, ui_vars,
                   api_vars, export_vars, extract_call>>

NextDiagrams ==
    \E user_flows \in UserFlows :
        \E outcome \in [Eligible(user_flows) -> DiagramOutcomes] :
            CallGenerateFlowDiagrams(user_flows, outcome)

SpecDiagrams == InitTools /\ [][NextDiagrams]_vars

\* ------------------------------------------------------------------ turns
\* stop() has completed on a bridge that was started
Stopped == started /\ connection = "None"

\* the maximal runs of consecutive fragments of one speaker: <<i, j>> with
\* delivered[i..j] of one speaker, no such fragment before i or after j
Runs ==
    {r \in (DOMAIN delivered) \X (DOMAIN delivered) :
        /\ r[1] <= r[2]
        /\ \A k \in r[1]..r[2] : delivered[k].speaker = delivered[r[1]].speaker
        /\ r[1] = 1 \/ delivered[r[1] - 1].speaker # delivered[r[1]].speaker
        /\ r[2] = Len(delivered)
              \/ delivered[r[2] + 1].speaker # delivered[r[2]].speaker}

\* a run is over once the other speaker has spoken or the session has stopped
Closed(r) == r[2] < Len(delivered) \/ Stopped

\* the fragments delivered[i..j] joined by single spaces
RECURSIVE JoinFragments(_, _)
JoinFragments(i, j) ==
    IF i = j THEN delivered[i].text
    ELSE JoinFragments(i, j - 1) \o SPACE \o delivered[j].text

\* the persisted messages that hold exactly the text of run r
MessagesEqualTo(r) ==
    {k \in DOMAIN conversation :
        /\ conversation[k].speaker = delivered[r[1]].speaker
        /\ conversation[k].message = JoinFragments(r[1], r[2])}

\* the persisted messages taken from run r: those of its speaker that begin
\* with its first fragment (every fragment of a session is a different letter)
MessagesOf(r) ==
    {k \in DOMAIN conversation :
        /\ conversation[k].speaker = delivered[r[1]].speaker
        /\ conversation[k].message # <<>>
        /\ Head(conversation[k].message) = Head(delivered[r[1]].text)}

\* a step that hands the bridge a fragment of another speaker than the last
SpeakerChanges ==
    /\ delivered # <<>>
    /\ Len(delivered') = Len(delivered) + 1
    /\ delivered'[Len(delivered')].speaker # delivered[Len(delivered)].speaker

\* the speaker whose turn is open, and the text buffered for it
OpenSpeaker == delivered[Len(delivered)].speaker
OpenBuffer ==
    IF OpenSpeaker = "user" THEN current_user_transcript
    ELSE current_agent_response

\* a step that is stop()
StopStep == connection = "ws" /\ connection' = "None"

\* C1: every maximal run of fragments of one speaker that is over has exactly
\* one persisted message, whose text is the run's fragments joined by single
\* spaces in arrival order.
C1_OneMessagePerRun ==
    \A r \in Runs : Closed(r) => Cardinality(MessagesEqualTo(r)) = 1

\* C2: when the speaker changes while the bridge holds an open turn of the
\* previous speaker, then once the step that starts the new buffer is done the
\* store holds exactly one message with the previous speaker's completed
\* buffer.
C2_SpeakerChangeFlushes ==
    [][(SpeakerChanges /\ last_speaker = OpenSpeaker) =>
         Cardinality({k \in DOMAIN conversation' :
             /\ conversation'[k].speaker = OpenSpeaker
             /\ conversation'[k].message = OpenBuffer}) = 1]_vars

\* C3: stop() persists the buffered text of the open turn as a message of the
\* speaker whose turn it is, user or agent.
C3_StopPersistsOpenTurn ==
    [][(StopStep /\ last_speaker \in {"user", "agent"} /\ OpenBuffer # <<>>) =>
         /\ Len(conversation') > 0
         /\ conversation'[Len(conversation')].speaker = last_speaker
         /\ conversation'[Len(conversation')].message = OpenBuffer]_vars

\* C4: no logical turn has more than one persisted message, a turn that is
\* open when stop() is called included.
C4_AtMostOneMessagePerTurn ==
    \A r \in Runs : Cardinality(MessagesOf(r)) <= 1

\* ------------------------------------------------------------------ refresh
\* the text is one JSON document
IsJson(text) == Len(text) = 1 /\ text[1] \in JsonTexts

\* the fenced blocks of a response: the text between a fence and the next
\* one, without the json tag
FencedBlocks(text) ==
    {SubSeq(text, (IF i + 1 < j /\ text[i + 1] = "json" THEN i + 2 ELSE i + 1), j - 1) :
        <<i, j>> \in {p \in Fences(text) \X Fences(text) :
            /\ p[1] < p[2]
            /\ \A k \in Fences(text) : ~(p[1] < k /\ k < p[2])
            /\ Cardinality({k \in Fences(text) : k < p[1]}) % 2 = 0}}

\* the response holds nothing that parses as JSON: the raw text does not, and
\* no fenced block does
NoParseableJson(text) ==
    /\ text # <<>>
    /\ ~IsJson(text)
    /\ \A b \in FencedBlocks(text) : ~IsJson(b)

\* the first fenced block of the response is valid JSON other than null
HasFencedJson(text) ==
    /\ FencedBlock(text).found
    /\ IsJson(FencedBlock(text).group)
    /\ FencedBlock(text).group # <<"NULL">>

\* thread t takes the step of process that receives the design response
DesignStep(t) ==
    /\ t \in DOMAIN threads
    /\ threads[t].pc = "design"
    /\ threads'[t].response \in DesignResponses

\* thread t takes the step of process that receives the instruction response
\* and calls update_design_state
InstructionStep(t) ==
    /\ t \in DOMAIN threads
    /\ threads[t].pc = "instr"
    /\ threads'[t].response \in InstructionResponses

\* sub occurs in text
Contains(text, sub) ==
    \E i \in 1..(Len(text) - Len(sub) + 1) :
        SubSeq(text, i, i + Len(sub) - 1) = sub

\* C5: when the design response holds no parseable JSON, process writes
\* nothing: the snapshots and the latest design state are the same after the
\* call as before it (none before, none after).
C5_ParseFailureWritesNothing ==
    [][\A t \in DOMAIN threads :
         (DesignStep(t) /\ NoParseableJson(threads'[t].response)) =>
             /\ design_states' = design_states
             /\ GetLatestDesignState(SessionRows(design_states', session_id))
                    = GetLatestDesignState(SessionRows(design_states, session_id))]_vars

\* C5 witness: process has returned after an unparseable response, with a
\* snapshot in the store
C5_Witness ==
    \E t \in DOMAIN threads :
        /\ threads[t].pc = "refresh"
        /\ NoParseableJson(threads[t].response)
        /\ design_states # <<>>

\* C6 as claimed: on a parse failure process returns None to its caller, not
\* a design-state document.
C6_ParseFailureReturnsNone ==
    \A t \in DOMAIN threads :
        (threads[t].pc = "refresh" /\ NoParseableJson(threads[t].response))
            => threads[t].result = NoneVal

\* C6 as amended: on a parse failure process returns the design state it read
\* when the call began (the latest snapshot, or the default template when
\* that lookup gave nothing).
C6_ParseFailureReturnsCurrentState ==
    \A t \in DOMAIN threads :
        (threads[t].pc = "refresh" /\ NoParseableJson(threads[t].response))
            => /\ threads[t].result = threads[t].current_state
               /\ threads[t].result \in StateValues

\* C6 witness: process has returned a stored document, not the template,
\* after an unparseable response
C6_Witness ==
    \E t \in DOMAIN threads :
        /\ threads[t].pc = "refresh"
        /\ NoParseableJson(threads[t].response)
        /\ threads[t].result = "S1"

\* C7: when the design response holds a fenced block of valid JSON, then once
\* process has ended the latest design state is that JSON, in a new snapshot
\* behind which the earlier snapshots are still stored.
C7_FencedJsonBecomesLatest ==
    [][\A t \in DOMAIN threads :
         (InstructionStep(t) /\ HasFencedJson(threads[t].response)) =>
             /\ GetLatestDesignState(SessionRows(design_states', session_id))
                    = {JsonValue(FencedBlock(threads[t].response).group[1])}
             /\ Len(design_states') = Len(design_states) + 1
             /\ SubSeq(design_states', 1, Len(design_states)) = design_states]_vars

\* C8: when the instruction response begins with NO_CHANGE:, the instructions
\* stored as latest are the same after process as before it, whatever they
\* were, none included.
C8_NoChangeKeepsInstructions ==
    [][\A t \in DOMAIN threads :
         (InstructionStep(t) /\ IsNoChange(Strip(threads'[t].response))) =>
             GetLatestInstructions(SessionRows(design_states', session_id))
                 = GetLatestInstructions(SessionRows(design_states, session_id))]_vars

\* C8 witness: process has ended after a NO_CHANGE: response in a session
\* whose latest snapshot holds instructions
C8_Witness ==
    \E t \in DOMAIN threads :
        /\ threads[t].pc = "done"
        /\ IsNoChange(Strip(threads[t].response))
        /\ threads[t].previous_custom_instructions = <<"G1">>
        /\ GetLatestInstructions(SessionRows(design_states, session_id)) = {<<"G1">>}

\* C9: when the instruction response is new guidance, the snapshot the refresh
\* writes holds that text as its instructions, and the latest-instructions
\* lookup returns it.
C9_GuidanceIsStored ==
    [][\A t \in DOMAIN threads :
         (InstructionStep(t) /\ ~IsNoChange(Strip(threads'[t].response))) =>
             /\ Len(design_states') = Len(design_states) + 1
             /\ design_states'[Len(design_states')].instructions
                    = Strip(threads'[t].response)
             /\ GetLatestInstructions(SessionRows(design_states', session_id))
                    = {Strip(threads'[t].response)}]_vars

\* C10: whenever the stored instructions are not empty, the prompt given to
\* the remote session (by start or by a refresh) contains their text.
C10_PromptContainsInstructions ==
    remote.custom \notin {NoneText, <<>>}
        => Contains(remote.prompt, remote.custom)

\* ------------------------------------------------------------------ C11..C20
\* C11: the bridge is active (is_listening set, start returned True,
\* voice_active set) only if connection.start succeeded; when the handshake
\* returned False or raised, start returned False, is_listening is not set and
\* voice_active is not set.
C11_ActiveOnlyAfterHandshake ==
    /\ (is_listening \/ start_result = "True" \/ voice_active)
           => handshake = "True"
    /\ handshake \in {"False", "raises"}
           => start_result = "False" /\ ~is_listening /\ ~voice_active

\* C11 witness: start has returned after a handshake that raised
C11_Witness ==
    /\ started
    /\ handshake = "raises"
    /\ start_result = "False"
    /\ connection = "ws"
    /\ ~is_listening

\* C12: stop brings the bridge back to idle whatever the refresh threads are
\* doing: once it has returned the connection is None, is_listening is not
\* set, both turn buffers are empty and last_speaker is unset; and stop can
\* run whenever the bridge holds a connection, without any thread having to
\* end first.
C12_StopReturnsToIdle ==
    /\ Stopped =>
          /\ connection = "None"
          /\ ~is_listening
          /\ current_user_transcript = <<>>
          /\ current_agent_response = <<>>
          /\ last_speaker = "None"
    /\ connection = "ws" => ENABLED Stop

\* C12 witness: stop has returned on a session that was listening, while a
\* refresh is still waiting for its design response
C12_Witness ==
    /\ Stopped
    /\ handshake = "True"
    /\ \E t \in DOMAIN threads : threads[t].pc = "design"

\* thread t is inside a model call that has not returned
InModelCall(t) == threads[t].pc \in {"design", "instr"}

\* the speech service has a further fragment for the bridge
FragmentPending == Listening /\ Len(delivered) < MaxFragments

\* C13: a refresh whose model call never returns blocks only its own thread:
\* while it waits, a pending user or agent fragment is handled, an agent
\* fragment that opens a turn starts that turn's own refresh, stop runs, and
\* every other unfinished refresh can take its next step.
C13_HungRefreshBlocksOnlyItself ==
    \A t \in DOMAIN threads :
        InModelCall(t) =>
            /\ FragmentPending =>
                  /\ ENABLED HandleUserTranscript(Fragment(Len(delivered) + 1))
                  /\ ENABLED HandleAgentResponse(Fragment(Len(delivered) + 1))
            /\ (FragmentPending /\ last_speaker = "user") =>
                  ENABLED (/\ HandleAgentResponse(Fragment(Len(delivered) + 1))
                           /\ Len(threads') = Len(threads) + 1
                           /\ threads'[Len(threads')].pc = "process")
            /\ connection = "ws" => ENABLED Stop
            /\ \A u \in DOMAIN threads :
                  (u # t /\ threads[u].pc # "done") => ENABLED Refresh(u)

\* C13 witness: the first refresh is still inside its model call after two
\* more fragments were handled, the turn after it started a refresh of its
\* own, that one has moved on, and stop has returned
C13_Witness ==
    /\ Len(threads) = 2
    /\ InModelCall(1)
    /\ threads[2].pc = "done"
    /\ Len(delivered) = MaxFragments
    /\ Stopped

\* every refresh that was started has ended
AllRefreshesDone ==
    threads # <<>> /\ \A t \in DOMAIN threads : threads[t].pc = "done"

\* refresh t computed a new design state and went on to store it
ComputedUpdate(t) ==
    threads[t].wrote > 0 \/ threads[t].response \in InstructionResponses

\* C14: once every refresh has ended, the latest snapshot of the session is
\* one written by a refresh that computed an update, and no other such
\* refresh read a longer transcript than that one did.
C14_NoLostUpdate ==
    (AllRefreshesDone /\ \E t \in DOMAIN threads : ComputedUpdate(t)) =>
        LET latest == LatestRows(SessionRows(design_states, session_id))
        IN  /\ latest # {}
            /\ \A i \in latest :
                  \E t \in DOMAIN threads :
                      /\ ComputedUpdate(t)
                      /\ threads[t].wrote = i
                      /\ \A u \in DOMAIN threads :
                            ComputedUpdate(u) => threads[u].read <= threads[t].read

\* C15: stop does not cancel a refresh: a refresh that was started before stop
\* and reaches its write after stop has returned still adds its snapshot, and
\* that snapshot is then the latest of the session.
C15_RefreshWritesAfterStop ==
    [][\A t \in DOMAIN threads :
         (Stopped /\ InstructionStep(t)) =>
             /\ Len(design_states') = Len(design_states) + 1
             /\ design_states'[Len(design_states')].state_json
                    = JsonDumps(threads[t].updated_state)
             /\ threads[t].updated_state
                    \in GetLatestDesignState(SessionRows(design_states', session_id))]_vars

\* the step is a call of op on the store that returned without raising
Returned(op) == last_call'.op = op /\ ~last_call'.raised

\* C16: snapshots are append-only: every step leaves every stored snapshot
\* where and what it was, a call of update_design_state that returns adds
\* exactly one row, holding the state it was given, and no other step adds or
\* removes one.
C16_SnapshotsAppendOnly ==
    [][/\ Len(design_states') >= Len(design_states)
       /\ SubSeq(design_states', 1, Len(design_states)) = design_states
       /\ IF Returned("update_design_state")
          THEN /\ Len(design_states') = Len(design_states) + 1
               /\ design_states'[Len(design_states')].session = last_call'.session
               /\ design_states'[Len(design_states')].state_json
                      = JsonDumps(last_call'.state)
          ELSE design_states' = design_states]_vars

\* C16 witness: update_design_state has returned on a session that had a
\* snapshot, and both rows are stored
C16_Witness ==
    /\ last_call.op = "update_design_state"
    /\ ~last_call.raised
    /\ last_call.session = session_id
    /\ Len(SessionRows(design_states, session_id)) = 2

\* C17: after a call of update_design_state has returned,
\* get_latest_design_state of that session returns the state that call was
\* given, whatever readings the clock gave the rows.
C17_LatestIsLastWritten ==
    (last_call.op = "update_design_state" /\ ~last_call.raised) =>
        GetLatestDesignState(SessionRows(design_states, last_call.session))
            = {last_call.state}

\* the messages of a session in the order they were added
Added(conv, id) ==
    LET rows == SessionRows(conv, id)
    IN  [i \in 1..Len(rows) |-> [speaker |-> rows[i].speaker,
                                 message |-> rows[i].message,
                                 timestamp |-> rows[i].timestamp]]

\* C18: get_conversation_history returns the messages added to the session,
\* all of them and no others, in the order they were added, whatever readings
\* the clock gave them.
C18_HistoryInOrderAdded ==
    GetConversationHistory(sessions, conversation, session_id)
        = {Added(conversation, session_id)}

\* every stored row refers to a session that exists
RowsReferToSessions(sess, conv, states) ==
    /\ \A i \in DOMAIN conv : conv[i].session \in sess
    /\ \A i \in DOMAIN states : states[i].session \in sess

\* C19: a call of update_design_state or add_conversation_message with an id
\* no session has raises and leaves the store as it was (no session, snapshot
\* or message is added), and every stored row refers to an existing session.
C19_UnknownSessionRaises ==
    [][/\ (/\ last_call'.op \in {"update_design_state", "add_conversation_message"}
           /\ last_call'.session \notin sessions)
             => /\ last_call'.raised
                /\ UNCHANGED <<sessions, conversation, design_states>>
       /\ RowsReferToSessions(sessions', conversation', design_states')]_vars

\* C19 witness: update_design_state was called with an id no session has, it
\* raised, and the store holds rows
C19_Witness ==
    /\ last_call.op = "update_design_state"
    /\ last_call.session \notin sessions
    /\ last_call.raised
    /\ design_states # <<>>
    /\ conversation # <<>>

\* thread t ends in this step in the except clause of its target function
RaiseStep(t) ==
    /\ t \in DOMAIN threads
    /\ ~threads[t].raised
    /\ threads'[t].raised

\* C20: an exception inside a refresh stays inside it: the step in which the
\* thread catches it ends that thread and changes nothing of the bridge (turn
\* buffers, last_speaker, connection, is_listening), of the transcript or of
\* any other thread; and in every state with such an ended thread a pending
\* fragment is handled and stop runs as without it.
C20_RefreshExceptionIsContained ==
    /\ [](\A t \in DOMAIN threads :
            threads[t].raised =>
                /\ FragmentPending =>
                      /\ ENABLED HandleUserTranscript(Fragment(Len(delivered) + 1))
                      /\ ENABLED HandleAgentResponse(Fragment(Len(delivered) + 1))
                /\ connection = "ws" => ENABLED Stop)
    /\ [][\A t \in DOMAIN threads :
            RaiseStep(t) =>
                /\ threads'[t].pc = "done"
                /\ \A u \in DOMAIN threads : u # t => threads'[u] = threads[u]
                /\ UNCHANGED <<bridge_vars, link_vars, conversation, delivered,
                               ui_vars>>]_vars

\* C20 witness: the first refresh ended in its except clause at the store
\* write, and after it two more fragments were handled, the next turn started
\* its refresh and stop returned
C20_Witness ==
    /\ Len(threads) = 2
    /\ threads[1].raised
    /\ threads[1].response \in InstructionResponses
    /\ threads[1].read = 2
    /\ Len(delivered) = MaxFragments
    /\ Stopped

\* ------------------------------------------------------------------ C21..C30
\* run r is a turn of the agent
AgentRun(r) == delivered[r[1]].speaker = "agent"

\* the refresh threads started by the handler of a fragment of run r
StartedIn(r) == {k \in DOMAIN threads : threads[k].fragment \in r[1]..r[2]}

\* the transcript as it was when thread k was started holds a message of
\* run q's speaker with the whole text of run q
HeldAtStart(k, q) ==
    \E m \in 1..threads[k].transcript :
        /\ conversation[m].speaker = delivered[q[1]].speaker
        /\ conversation[m].message = JoinFragments(q[1], q[2])

\* C21: for every agent turn that is over, exactly one refresh was started,
\* and the transcript at the time it was started held the user turn before
\* that agent turn and the whole text of the agent turn.
C21_OneExtractionPerAgentTurn ==
    \A r \in Runs :
        (AgentRun(r) /\ Closed(r)) =>
            /\ Cardinality(StartedIn(r)) = 1
            /\ \A k \in StartedIn(r) :
                  /\ HeldAtStart(k, r)
                  /\ \A q \in Runs : q[2] = r[1] - 1 => HeldAtStart(k, q)

\* an export call returned in this step
ExportReturns == export_result' # export_result

\* what the store returns for the session of the export that just returned
LatestOfExport == GetLatestDesignState(SessionRows(design_states, export_result'.session))

\* C22: an export for a session that has no stored design state, that is
\* unknown, or whose latest state has no top-level Paid key returns
\* (False, message), writes no file, and creates no directory other than the
\* outputs directory the script sets up before it calls the export.
C22_NoDesignStateNoDocument ==
    [][(ExportReturns /\ \A v \in LatestOfExport : NoPaid(v)) =>
          /\ ~export_result'.ok
          /\ export_result'.message = "No valid design state found for this session."
          /\ files' = files
          /\ dirs' \subseteq dirs \cup {"outputs"}
          /\ export_result'.output_dir # "outputs" => dirs' = dirs]_vars

\* a session with snapshots, the latest without Paid, was exported in vain
C22_Witness ==
    /\ export_result.session = session_id
    /\ design_states # <<>>
    /\ export_result.message = "No valid design state found for this session."
    /\ files = NoFiles

\* the file an export wrote
ExportedFiles ==
    {f \in files' : <<f.dir, "/">> \o f.name = export_result'.path}

SectionHeadings ==
    {<<"### Current Solutions">>, <<"### Pain Points">>, <<"## User Personas">>,
     <<"## Value Proposition">>, <<"## Approach">>, <<"## User Experience">>}

\* the text under the problem heading at line i of a document
StatementUnder(content, i) ==
    IF Len(content) >= i + 2 /\ content[i + 2] \notin SectionHeadings
    THEN content[i + 2] ELSE <<>>

HasMetaAndProblem(v) ==
    ~NoPaid(v) /\ Has(Dict(v)["Paid"], "meta") /\ Has(Dict(v)["Paid"], "problem")

TitleAndProblemOf(content, v) ==
    LET title == Get(Dict(v)["Paid"]["meta"], "title")
        statement == Get(Dict(v)["Paid"]["problem"], "statement")
    IN  /\ content[1] = IF NonEmpty(title) THEN <<"# ">> \o title ELSE DEFAULT_TITLE
        /\ Cardinality({i \in DOMAIN content : content[i] = PROBLEM_HEADER}) = 1
        /\ \A i \in DOMAIN content : content[i] = PROBLEM_HEADER =>
              /\ i < Len(content) /\ content[i + 1] = Blank
              /\ StatementUnder(content, i) = statement

\* C23: when the latest state has a Paid object with meta and problem, the
\* document a successful export wrote starts with the title line (the stored
\* title, or the default title when the stored title is empty) and has one
\* problem section whose text is the stored problem statement.
C23_TitleAndProblemExported ==
    [][(ExportReturns /\ export_result'.ok) =>
          /\ ExportedFiles # {}
          /\ \A f \in ExportedFiles : \A v \in LatestOfExport :
                HasMetaAndProblem(v) => TitleAndProblemOf(f.content, v)]_vars

\* a document with a stored title and statement was exported
C23_Witness ==
    /\ export_result.ok
    /\ \E f \in files :
          /\ f.content[1] = <<"# ", "A", " ", "b">>
          /\ \E i \in DOMAIN f.content : f.content[i] = <<"p", "q">>

\* thread t, having computed an update and received the guidance, leaves its
\* extraction step
ExtractionEnds(t) ==
    threads[t].pc = "instr" /\ threads'[t].response \in InstructionResponses

\* thread t pushes the instructions
PushStep(t) ==
    threads[t].pc = "refresh" /\ threads'[t].pc = "done"

\* the prompts that can be built from the latest snapshot of the store
LatestPrompts ==
    {Remote(latest, instr) :
        latest \in GetLatestDesignState(SessionRows(design_states, session_id)),
        instr \in GetLatestInstructions(SessionRows(design_states, session_id))}

\* C24: within one refresh the push of the instructions follows the end of
\* the extraction step (snapshot written, or update aborted); the prompt is
\* built from the latest snapshot of the store at the time of the push, so
\* never from a state older than the snapshot the refresh has just written.
C24_PushFollowsOwnSnapshot ==
    [][\A t \in DOMAIN threads :
          /\ ExtractionEnds(t) =>
                /\ threads'[t].pc = "refresh"
                /\ Len(design_states') = Len(design_states) + 1
                /\ threads'[t].wrote = Len(design_states')
          /\ PushStep(t) =>
                /\ remote' \in {remote} \cup LatestPrompts
                /\ threads[t].wrote > 0 =>
                      \A i \in LatestRows(design_states) :
                         design_states[i].created_at
                            >= design_states[threads[t].wrote].created_at]_vars

\* the contents of the first fenced block of a response: what lies between
\* the first fence and the second, without a leading json tag
FirstBlock(text) ==
    LET first == CHOOSE i \in Fences(text) : \A k \in Fences(text) : i <= k
        second == CHOOSE j \in Fences(text) \ {first} :
                      \A k \in Fences(text) \ {first} : j <= k
        inner == SubSeq(text, first + 1, second - 1)
    IN  IF inner # <<>> /\ Head(inner) = "json" THEN Tail(inner) ELSE inner

HasBlock(text) == Cardinality(Fences(text)) >= 2

\* what parsing yields: the value (None for null), or None when it fails
Parsed(text) == IF IsJson(text) THEN JsonValue(text[1]) ELSE NoneVal

\* C25: _extract_json parses the contents of the first fenced block when the
\* response has one and the whole response only when it has none; it returns
\* the parsed value, or None when parsing fails, also when text outside an
\* invalid block is valid JSON.
C25_FirstFencedBlockElseRaw ==
    extract_call.called =>
        extract_call.value =
            IF HasBlock(extract_call.text)
            THEN Parsed(FirstBlock(extract_call.text))
            ELSE Parsed(extract_call.text)

\* an invalid block followed by valid JSON gave None
C25_Witness ==
    /\ extract_call.called
    /\ extract_call.text = <<FENCE, "bad", FENCE, "J1">>
    /\ extract_call.value = NoneVal

\* C26: update_instructions sends only while the bridge is connected and
\* listening.  Once stop_conversation has completed or a close event of the
\* remote side has been handled the bridge does not listen again, and every
\* push made from then on, that of a refresh in flight at the stop included,
\* returns False and leaves the remote session as it was.
C26_NoPushUnlessListening ==
    [][/\ (started /\ ~Listening) => ~Listening'
       /\ (Stop \/ OnClose) => ~Listening'
       /\ \A t \in DOMAIN threads :
             (PushStep(t) /\ ~Listening) =>
                 /\ threads'[t].pushed = "False"
                 /\ remote' = remote]_vars

\* a refresh in flight at the stop made its push after it, in vain
C26_Witness ==
    /\ connection = "None"
    /\ handshake = "True"
    /\ \E t \in DOMAIN threads : threads[t].pushed = "False"

\* a call of generate_flow_diagrams returned in this step, after an earlier one
GenerateAgain == last_generate.called /\ last_generate' # last_generate

\* the indices of the flows that are named and have a step
EligibleIndices(user_flows) == {i - 1 : i \in Eligible(user_flows)}

\* C27: generate_flow_diagrams regenerates only when the flows differ from
\* those of the previous call: with equal flows the cache is returned as it
\* is and the agent is not invoked; with different flows the cache is built
\* anew, from the agent's answers of this call alone.
C27_RegeneratesOnlyOnChange ==
    [][GenerateAgain =>
          IF last_generate'.flows = last_generate.flows
          THEN /\ flow_diagrams' = flow_diagrams
               /\ last_generate'.returned = flow_diagrams
               /\ last_generate'.invoked = {}
          ELSE /\ flow_diagrams' \subseteq last_generate'.invoked
               /\ {d.index : d \in last_generate'.invoked}
                     = EligibleIndices(last_generate'.flows)
               /\ last_generate'.returned = flow_diagrams']_vars

\* the same flows were given twice and the cached diagram was returned
C27_Witness ==
    /\ last_generate.called
    /\ ~last_generate.changed
    /\ last_generate.invoked = {}
    /\ last_generate.returned # {}

\* C30: after every generate_flow_diagrams(flows) the cache holds a diagram
\* for each flow that has a name and at least one step, and for no other
\* index; also on a later call with the same flows after a generation had
\* failed.
C30_CacheCoversEligibleFlows ==
    last_generate.called =>
        {d.index : d \in flow_diagrams} = EligibleIndices(last_generate.flows)

\* fragment k is part of the text of a persisted message of its speaker
Persisted(k) ==
    \E m \in DOMAIN conversation :
        /\ conversation[m].speaker = delivered[k].speaker
        /\ Contains(conversation[m].message, delivered[k].text)

\* C28: no fragment is silently dropped: once stop() has completed, every
\* fragment that was delivered is contained in the text of a persisted message
\* of the same speaker, agent fragments that precede any user fragment and
\* fragments that continue a turn included.
C28_NoFragmentDropped ==
    Stopped => \A k \in DOMAIN delivered : Persisted(k)

\* C29: when the remote side accepts the handshake, start_live_voice_session
\* of the UI ends with the session active: voice_active is set and the status
\* is 'Voice session started successfully'.
C29_UiStartReachesActive ==
    [][StartLiveVoiceSession("True") =>
          /\ voice_active'
          /\ ui_status' = "Voice session started successfully"]_vars

====
